---- MODULE Spec2Model ----
(***************************************************************************)
(* Discord gateway session controller (gateway/gateway.go) and its         *)
(* pacemaker (utils/heart/heart.go) as a state machine of goroutines.      *)
(*                                                                         *)
(* Goroutines:                                                             *)
(*   - the caller's thread (thread 0) calling Open/Close/Reconnect,        *)
(*   - one handleWS goroutine per started session (thread k >= 1),         *)
(*   - one pacemaker goroutine per StartAsync (pacer k >= 1),              *)
(*   - user goroutines calling Send, and one caller of Wait.               *)
(* Unbuffered channels (Pacemaker.stop, Pacemaker.death) are rendezvous    *)
(* between a sender and a receiver; fatalError and Events are buffered.    *)
(***************************************************************************)
EXTENDS Integers, Sequences, FiniteSets, TLC

\* ---------------------------------------------------------------- bounds
\* Sessions (StartAsync calls) the network lets happen in one run.
MaxSessions == 2
\* Ceiling of a pacemaker's clock, in units of the heartbeat interval.
MaxTime == 4
\* Dispatch frames the server delivers in one run.
MaxDispatch == 1
\* Goroutines calling Send concurrently.
NumSenders == 2
\* Width in bits of the machine integer standing for Go's int64.
IntBits == 5

\* ------------------------------------------------------ program constants
WSRetries == 3
WSBuffer == 10
\* hello.HeartbeatInterval of the model's server.
Heartrate == 1

\* ------------------------------------------------------------------ errors
\* An error is the chain of its messages, outermost first; nil is empty.
Nil == <<>>
ErrDead == <<"no heartbeat replied">>
ErrWSMaxTries == <<"max tries reached">>
ErrInvalidSession == <<"invalid session">>
ErrTransport == <<"transport error">>
ErrDial == <<"dial failed">>
ErrSend == <<"send failed">>
ErrNotHello == <<"unexpected OP code">>
ErrEmpty == <<"Event data is empty, reconnecting.">>

\* A Wrap that hands back the error it was given: sentinel errors would then
\* stay comparable with != after Open has returned them.
Wrap_Unwrapped(err, msg) == err

\* errors.Wrap: nil stays nil, anything else becomes a new, distinct error.
Wrap(err, msg) == IF err = Nil THEN Nil ELSE <<msg>> \o err

\* ----------------------------------------------------------------- threads
User == 0
Sessions == 1..MaxSessions
Threads == {User} \cup Sessions
Senders == 1..NumSenders
NoOne == -1

\* What the caller's thread does in one run: its API calls, in order.
Programs == {<<"Open">>, <<"Open", "Close">>, <<"Open", "Reconnect">>, <<"Reconnect">>}

\* What else goes on in one run: user Sends, dispatch frames and their consumer,
\* heartbeat acknowledgements and session rejections, nobody calling Wait,
\* Pace calls that take their time, or dispatch frames that nobody consumes.
Extras == {"none", "sends", "events", "acks", "nowait", "slow", "flood"}

\* The runs considered: every program on its own, and everything else that
\* goes on together with the program that opens the gateway once.
Scenarios ==
    {[prog |-> p, extra |-> "none"] : p \in Programs}
        \cup {[prog |-> <<"Open">>, extra |-> e] : e \in Extras}

VARIABLES
    th,          \* Threads -> call state of a goroutine running controller code
    pacer,       \* Sessions -> state of a Pacemaker and of its goroutine
    SessionID,   \* g.SessionID ("" or an id)
    Pacemaker,   \* g.Pacemaker: 0 is nil, else the session of the pacemaker
    paceDeath,   \* g.paceDeath: 0 is nil, else the session whose death channel it is
    waitGroup,   \* g.waitGroup: 0 is nil, else the session whose WaitGroup it is
    wgCount,     \* Sessions -> counter of that session's WaitGroup
    availW,      \* g.available: the thread holding it in write mode, or NoOne
    availR,      \* g.available: the senders holding it in read mode
    fatalError,  \* g.fatalError: buffered channel of capacity 1
    waiter,      \* the caller of Wait(): "none", "waiting" or <<"got", err>>
    eventsLen,   \* len(g.Events)
    wsOpen,      \* the websocket is dialed and not closed
    outFirst,    \* first frame written to the transport since the last Dial
    sender,      \* Senders -> "idle" or "sending"
    nextSess,    \* next session to be started
    netDown,     \* environment: every Dial fails
    prog,        \* environment: the caller's program
    extra,       \* environment: what else goes on
    dispatched,  \* dispatch frames delivered to the event loop so far
    calls,       \* API calls made by the caller's thread
    userOpen,    \* the caller's last Open() returned nil and Close() was not called since
    published,   \* every value ever sent on fatalError, in order
    panicked,    \* a goroutine panicked: the process is gone
    deadCall     \* one call of Pacemaker.Dead on given field values, and its result

vars == <<th, pacer, SessionID, Pacemaker, paceDeath, waitGroup, wgCount, availW,
          availR, fatalError, waiter, eventsLen, wsOpen, outFirst, sender,
          nextSess, netDown, prog, extra, dispatched, calls, userOpen, published,
          panicked, deadCall>>

gw == <<SessionID, Pacemaker, paceDeath, waitGroup>>
lock == <<availW, availR>>
chans == <<fatalError, waiter, published>>
net == <<wsOpen, outFirst, nextSess, netDown>>
usr == <<calls, userOpen, prog, extra>>
evs == <<eventsLen, dispatched>>

\* --------------------------------------------------------------- pacemaker
\* The values of the machine integer, and Go's wrap-around of a result to them.
MinInt == -(2 ^ (IntBits - 1))
MaxInt == 2 ^ (IntBits - 1) - 1
Ints == MinInt..MaxInt
WrapInt(n) == ((n - MinInt) % (2 ^ IntBits)) + MinInt

\* Dead comparing with >= where the code compares with >.
Dead_AtLeast(echo, sent, rate) ==
    IF echo = 0 \/ sent = 0 THEN FALSE ELSE WrapInt(sent - echo) >= WrapInt(rate * 2)

\* Dead allowing one interval of silence where the code allows two.
Dead_OneInterval(echo, sent, rate) ==
    IF echo = 0 \/ sent = 0 THEN FALSE ELSE WrapInt(sent - echo) > WrapInt(rate)

\* Pacemaker.Dead on the three values it reads, in machine arithmetic.
Dead(echo, sent, rate) ==
    IF echo = 0 \/ sent = 0 THEN FALSE ELSE WrapInt(sent - echo) > WrapInt(rate * 2)

\* No call of Dead made on given values.
NoCall == [sent |-> 0, echo |-> 0, rate |-> 0, called |-> FALSE, dead |-> FALSE]

\* A Pacemaker and its goroutine; now is time.Now() as this pacemaker reads it,
\* deaths the number of values received from its death channel so far, why the
\* return statement its loop ended at ("pace", "dead" or "stop"), beats the
\* heartbeats it has sent, unacked those sent since the last Echo (up to the
\* return of its loop), slow whether
\* one of its Pace calls took longer than two intervals.
NoPacer == [pc |-> "none", stop |-> FALSE, ret |-> Nil, SentBeat |-> 0, EchoBeat |-> 0,
            now |-> 0, deaths |-> 0, why |-> "none", beats |-> 0, unacked |-> 0,
            slow |-> FALSE]

\* A goroutine running controller code: where it is (pc), Reconnect's loop
\* counter (i) and whether Open was called by Reconnect (inRec), who called
\* Close (closeRet), the error start returned (err), the Pacemaker that Stop
\* was called on (stopP), the WaitGroup that Wait was called on (wg), the
\* session start created (sess); and, of the last call that returned, its
\* name (done) and result (res), the Open calls (nDial: each dials once) and
\* failed Opens (nFail) of Reconnect, and whether its last Open returned nil
\* (lastNil). Some fields only record what was the case: late, that Stop was
\* called after the pacemaker's loop had returned; quiet, that the tasks of the
\* session were gone when Close returned; auth and authSid, the frame the
\* current handshake authenticated with and g.SessionID as start read it.
IdleThread == [pc |-> "idle", inRec |-> FALSE, i |-> 0, closeRet |-> "none", err |-> Nil,
               stopP |-> 0, wg |-> 0, sess |-> 0, done |-> "none", res |-> Nil,
               nDial |-> 0, nFail |-> 0, lastNil |-> FALSE, late |-> FALSE,
               quiet |-> FALSE, auth |-> "none", authSid |-> ""]

\* The gateway as NewGatewayWithDriver leaves it, before any call.
Fresh ==
    /\ th = [t \in Threads |-> IF t = User THEN IdleThread
                               ELSE [IdleThread EXCEPT !.pc = "unborn"]]
    /\ pacer = [p \in Sessions |-> NoPacer]
    /\ SessionID = ""
    /\ Pacemaker = 0
    /\ paceDeath = 0
    /\ waitGroup = 0
    /\ wgCount = [p \in Sessions |-> 0]
    /\ availW = NoOne
    /\ availR = {}
    /\ fatalError = <<>>
    /\ eventsLen = 0
    /\ wsOpen = FALSE
    /\ outFirst = "none"
    /\ sender = [s \in Senders |-> "idle"]
    /\ nextSess = 1
    /\ dispatched = 0
    /\ calls = 0
    /\ userOpen = FALSE
    /\ published = <<>>
    /\ panicked = FALSE

Init ==
    /\ Fresh
    /\ \E sc \in Scenarios : prog = sc.prog /\ extra = sc.extra
    /\ waiter = IF extra = "nowait" THEN "none" ELSE "waiting"
    /\ netDown \in BOOLEAN
    /\ deadCall = NoCall

\* A frame written to the transport: remembered when it is the first since Dial.
Written(frame) == IF outFirst = "none" THEN frame ELSE outFirst

\* Pacemaker.Echo, line 60, on the pacemaker q.
Echo(q) == [q EXCEPT !.EchoBeat = q.now,
                      !.unacked = IF q.pc \in {"start", "select"} THEN 0 ELSE @]

\* How long a call of Pace can take: no time, or more than two intervals.
SlowPace == 2 * Heartrate + 1
PaceTimes == IF extra = "slow" THEN {0, SlowPace} ELSE {0}

\* Pacemaker.start, line 105, on the pacemaker q: the call of Pace took d.
Paced(q, d) == [q EXCEPT !.now = @ + d, !.slow = @ \/ d > 0]

\* A loop that stamps SentBeat before it looks at the result of Pace.
AfterPace_StampFirst(q, ok) ==
    IF ~ok THEN [q EXCEPT !.pc = "death", !.ret = ErrSend, !.SentBeat = q.now, !.why = "pace"]
    ELSE IF Dead(q.EchoBeat, q.now, Heartrate)
         THEN [q EXCEPT !.pc = "death", !.ret = ErrDead, !.SentBeat = q.now, !.why = "dead",
                        !.beats = @ + 1, !.unacked = @ + 1]
         ELSE [q EXCEPT !.pc = "select", !.SentBeat = q.now,
                        !.beats = @ + 1, !.unacked = @ + 1]

\* Pacemaker.start, lines 105-116, on the pacemaker q: Pace (g.Heartbeat, which
\* writes a Heartbeat frame without taking g.available) succeeded or not, then
\* SentBeat is set and the liveness check made.
AfterPace(q, ok) ==
    IF ~ok THEN [q EXCEPT !.pc = "death", !.ret = ErrSend, !.why = "pace"]
    ELSE IF Dead(q.EchoBeat, q.now, Heartrate)
         THEN [q EXCEPT !.pc = "death", !.ret = ErrDead, !.SentBeat = q.now, !.why = "dead",
                        !.beats = @ + 1, !.unacked = @ + 1]
         ELSE [q EXCEPT !.pc = "select", !.SentBeat = q.now,
                        !.beats = @ + 1, !.unacked = @ + 1]

\* Pacemaker.start, lines 95-116: Echo at least once, then the first iteration
\* of the loop up to its select.
Pacer_Start(p) ==
    /\ ~panicked
    /\ UNCHANGED deadCall
    /\ pacer[p].pc = "start"
    /\ \E ok \in BOOLEAN, d \in PaceTimes :
        /\ ok => wsOpen
        /\ pacer[p].now + d <= MaxTime
        /\ pacer' = [pacer EXCEPT ![p] = AfterPace(Paced(Echo(pacer[p]), d), ok)]
        /\ outFirst' = IF ok THEN Written("Heartbeat") ELSE outFirst
    /\ UNCHANGED <<th, gw, wgCount, lock, chans, wsOpen, nextSess, netDown, usr, evs,
                   sender, panicked>>

\* Pacemaker.start, lines 123 and 105-116: the ticker fires after Heartrate and
\* the loop paces again, up to its select.
Pacer_Tick(p) ==
    /\ ~panicked
    /\ UNCHANGED deadCall
    /\ pacer[p].pc = "select"
    /\ \E ok \in BOOLEAN, d \in PaceTimes :
        /\ ok => wsOpen
        /\ pacer[p].now + Heartrate + d <= MaxTime
        /\ pacer' = [pacer EXCEPT ![p] =
                        AfterPace(Paced([pacer[p] EXCEPT !.now = @ + Heartrate], d), ok)]
        /\ outFirst' = IF ok THEN Written("Heartbeat") ELSE outFirst
    /\ UNCHANGED <<th, gw, wgCount, lock, chans, wsOpen, nextSess, netDown, usr, evs,
                   sender, panicked>>

\* StartAsync's goroutine, lines 143-148, once the death value is taken:
\* p.stop = nil, then wg.Done() on the WaitGroup it was given.
Pacer_Exit(p) ==
    /\ ~panicked
    /\ UNCHANGED deadCall
    /\ pacer[p].pc = "nilstop"
    /\ pacer' = [pacer EXCEPT ![p] = [NoPacer EXCEPT !.pc = "exit",
                                                     !.deaths = pacer[p].deaths]]
    /\ wgCount' = [wgCount EXCEPT ![p] = IF wgCount[p] = 0 THEN 0 ELSE wgCount[p] - 1]
    /\ panicked' = (wgCount[p] = 0)
    /\ UNCHANGED <<th, gw, lock, chans, net, usr, evs, sender>>

\* ------------------------------------------------------------- Reconnect
\* Reconnect, line 184: the loop condition.
MoreTries(i) == i < WSRetries

\* Reconnect, line 191: the Open() results that make the loop try again.
TryAgain(err) == err # Nil /\ err # ErrInvalidSession

\* Reconnect returns res in thread t: to the caller, or to handleWS, line 309.
ReconnectReturns(r, t, res) ==
    [IdleThread EXCEPT !.pc = IF t = User THEN "idle" ELSE "publish",
                       !.done = "Reconnect", !.res = res, !.nDial = r.nDial,
                       !.nFail = r.nFail, !.lastNil = r.lastNil]

\* Reconnect, lines 184-200: the next attempt, or ErrWSMaxTries.
Retry(r, t) ==
    IF MoreTries(r.i) THEN [r EXCEPT !.pc = "dial", !.inRec = TRUE, !.err = Nil,
                                     !.auth = "none", !.authSid = ""]
    ELSE ReconnectReturns(r, t, ErrWSMaxTries)

\* Open returns err in thread t: to the caller, or to Reconnect, lines 191-197.
OpenReturns(r, t, err) ==
    IF ~r.inRec THEN [IdleThread EXCEPT !.done = "Open", !.res = err]
    ELSE IF TryAgain(err)
    THEN Retry([r EXCEPT !.i = @ + 1, !.nFail = @ + 1], t)
    ELSE ReconnectReturns([r EXCEPT !.nFail = IF err = Nil THEN @ ELSE @ + 1,
                                    !.lastNil = (err = Nil)], t, Nil)

\* What the caller knows once thread t has moved to r: an Open or a Reconnect
\* that returned nil left a session open.
UserOpenAfter(t, r) ==
    IF t = User /\ r.pc = "idle" /\ r.done \in {"Open", "Reconnect"}
    THEN r.res = Nil
    ELSE userOpen

\* Reconnect, lines 178-184: tear down first when paceDeath is non-nil.
Reconnect_Enter(t) ==
    /\ ~panicked
    /\ UNCHANGED deadCall
    /\ th[t].pc = "reconnect"
    /\ th' = [th EXCEPT ![t] =
                IF paceDeath # 0
                THEN [IdleThread EXCEPT !.pc = "close", !.closeRet = "Reconnect"]
                ELSE Retry(IdleThread, t)]
    /\ UNCHANGED <<pacer, gw, wgCount, lock, chans, net, usr, evs, sender, panicked>>

\* ------------------------------------------------------------------ Open
\* Open, lines 207-209: WS.Dial.
Open_Dial(t) ==
    /\ ~panicked
    /\ UNCHANGED deadCall
    /\ th[t].pc = "dial"
    /\ \E ok \in BOOLEAN :
        /\ ok => (~netDown /\ nextSess <= MaxSessions)
        /\ LET r == [th[t] EXCEPT !.nDial = @ + 1]
               r2 == IF ok THEN [r EXCEPT !.pc = "lock"]
                     ELSE OpenReturns(r, t, Wrap(ErrDial, "Failed to reconnect"))
           IN /\ th' = [th EXCEPT ![t] = r2]
              /\ userOpen' = UserOpenAfter(t, r2)
        /\ wsOpen' = IF ok THEN TRUE ELSE wsOpen
        /\ outFirst' = IF ok THEN "none" ELSE outFirst
    /\ UNCHANGED <<pacer, gw, wgCount, lock, chans, nextSess, netDown, calls, prog, extra,
                   evs, sender, panicked>>

\* Start, line 225: g.available.Lock().
Start_Lock(t) ==
    /\ ~panicked
    /\ UNCHANGED deadCall
    /\ th[t].pc = "lock"
    /\ availW = NoOne
    /\ availR = {}
    /\ availW' = t
    /\ th' = [th EXCEPT ![t].pc = "hello"]
    /\ UNCHANGED <<pacer, gw, wgCount, availR, chans, net, usr, evs, sender, panicked>>

\* AssertEvent(g, <-ch, HelloOP, &hello), line 250, on a frame of the transport.
AssertEvent(frame) ==
    CASE frame = "Hello" -> Nil
      [] frame = "Error" -> ErrTransport
      [] OTHER -> ErrNotHello

\* Start, lines 228-233: start failed with err, so Close is called.
StartFailed(r, err) == [r EXCEPT !.pc = "close", !.closeRet = "Start", !.err = err]

\* StartAsync, lines 131-136: the channels are made and the goroutine started.
StartAsync == [NoPacer EXCEPT !.pc = "start", !.stop = TRUE, !.now = 1]

\* start, lines 246-264: wait for Hello, then a new WaitGroup and a new
\* pacemaker, started at once.
start_Hello(t) ==
    /\ ~panicked
    /\ UNCHANGED deadCall
    /\ th[t].pc = "hello"
    /\ wsOpen
    /\ \E frame \in {"Hello", "Dispatch", "Error"} :
        /\ frame = "Hello" => nextSess <= MaxSessions
        /\ IF AssertEvent(frame) # Nil
           THEN /\ th' = [th EXCEPT ![t] =
                            StartFailed(@, Wrap(AssertEvent(frame), "Error at Hello"))]
                /\ UNCHANGED <<pacer, gw, wgCount, nextSess>>
           ELSE /\ th' = [th EXCEPT ![t].pc = "auth", ![t].sess = nextSess]
                /\ waitGroup' = nextSess
                /\ wgCount' = [wgCount EXCEPT ![nextSess] = 1]
                /\ Pacemaker' = nextSess
                /\ pacer' = [pacer EXCEPT ![nextSess] = StartAsync]
                /\ paceDeath' = nextSess
                /\ nextSess' = nextSess + 1
                /\ UNCHANGED SessionID
    /\ UNCHANGED <<lock, chans, wsOpen, outFirst, netDown, usr, evs, sender, panicked>>

\* A handshake that identifies whatever the session id.
AuthFrame_AlwaysIdentify(sid) == "Identify"

\* start, lines 268-277: Identify on a fresh session, Resume otherwise.
AuthFrame(sid) == IF sid = "" THEN "Identify" ELSE "Resume"

start_Auth(t) ==
    /\ ~panicked
    /\ UNCHANGED deadCall
    /\ th[t].pc = "auth"
    /\ \E ok \in BOOLEAN :
        /\ ok => wsOpen
        /\ th' = [th EXCEPT ![t] =
                    IF ok THEN [@ EXCEPT !.pc = "first", !.auth = AuthFrame(SessionID),
                                         !.authSid = SessionID]
                    ELSE StartFailed(@, Wrap(ErrSend, IF SessionID = ""
                                                      THEN "Failed to identify"
                                                      ELSE "Failed to resume"))]
        /\ outFirst' = IF ok THEN Written(AuthFrame(SessionID)) ELSE outFirst
    /\ UNCHANGED <<pacer, gw, wgCount, lock, chans, wsOpen, nextSess, netDown, usr, evs,
                   sender, panicked>>

\* HandleEvent's result on a frame: a rejected session is an error, every other
\* frame is handled.
HandleEvent(frame) == IF frame = "InvalidSession" THEN ErrInvalidSession ELSE Nil

\* HandleEvent on Ready captures the session id; InvalidSession clears it.
SessionAfter(frame, sid) ==
    CASE frame = "Ready" -> "S1"
      [] frame = "InvalidSession" -> ""
      [] OTHER -> sid

\* The frame the server answers Identify or Resume with when it accepts.
Accepted == IF SessionID = "" THEN "Ready" ELSE "Resumed"

\* start, lines 280-298: the first event; on success the event loop is spawned.
start_First(t) ==
    /\ ~panicked
    /\ UNCHANGED deadCall
    /\ th[t].pc = "first"
    /\ wsOpen
    /\ \E frame \in {Accepted, "InvalidSession", "Error"} :
        /\ IF frame = "Error"
           THEN /\ th' = [th EXCEPT ![t] = StartFailed(@, Wrap(ErrTransport, "First error"))]
                /\ UNCHANGED <<SessionID, wgCount, eventsLen, panicked>>
           ELSE IF HandleEvent(frame) # Nil
           THEN /\ th' = [th EXCEPT ![t] =
                            StartFailed(@, Wrap(HandleEvent(frame),
                                                "WS handler error on first event"))]
                /\ SessionID' = SessionAfter(frame, SessionID)
                /\ UNCHANGED <<wgCount, eventsLen, panicked>>
           ELSE /\ eventsLen < WSBuffer
                /\ eventsLen' = eventsLen + 1
                /\ SessionID' = SessionAfter(frame, SessionID)
                /\ IF waitGroup = 0
                   THEN /\ panicked' = TRUE
                        /\ UNCHANGED <<th, wgCount>>
                   ELSE /\ wgCount' = [wgCount EXCEPT ![waitGroup] = @ + 1]
                        /\ th' = [th EXCEPT ![t].pc = "unlock", ![t].err = Nil,
                                            ![th[t].sess] =
                                                [IdleThread EXCEPT !.pc = "eventLoop"]]
                        /\ UNCHANGED panicked
    /\ UNCHANGED <<pacer, Pacemaker, paceDeath, waitGroup, lock, chans, net, usr,
                   dispatched, sender>>

\* Start, line 226 (deferred): g.available.Unlock(); Start and Open return
\* th[t].err.
Start_Unlock(t) ==
    /\ ~panicked
    /\ UNCHANGED deadCall
    /\ th[t].pc = "unlock"
    /\ availW' = NoOne
    /\ LET r2 == OpenReturns(th[t], t, th[t].err)
       IN /\ th' = [th EXCEPT ![t] = r2]
          /\ userOpen' = UserOpenAfter(t, r2)
    /\ UNCHANGED <<pacer, gw, wgCount, availR, chans, net, calls, prog, extra, evs, sender,
                   panicked>>

\* ------------------------------------------------------------------ Close
\* Pacemaker.start has returned on the pacemaker q.
LoopReturned(q) == q.pc \in {"death", "nilstop", "exit"}

\* The pacemaker goroutine and the event loop of session w are gone.
TasksGone(w) == pacer[w].pc = "exit" /\ th[w].pc \notin {"eventLoop", "loopdone"}

\* Close, line 158, and Pacemaker.Stop, line 86: the nil check of p.stop. A nil
\* g.Pacemaker is a nil dereference.
Close_Stop(t) ==
    /\ ~panicked
    /\ UNCHANGED deadCall
    /\ th[t].pc = "close"
    /\ IF Pacemaker = 0
       THEN /\ panicked' = TRUE
            /\ UNCHANGED th
       ELSE /\ th' = [th EXCEPT ![t].pc = IF pacer[Pacemaker].stop THEN "stopping"
                                          ELSE "closewait",
                                ![t].stopP = Pacemaker,
                                ![t].late = LoopReturned(pacer[Pacemaker])]
            /\ UNCHANGED panicked
    /\ UNCHANGED <<pacer, gw, wgCount, lock, chans, net, usr, evs, sender>>

\* Pacemaker.Stop, line 87, meeting Pacemaker.start, line 119: the stop signal
\* is handed over only while the loop is in its select; the loop returns nil.
Stop_Send(t) ==
    /\ ~panicked
    /\ UNCHANGED deadCall
    /\ th[t].pc = "stopping"
    /\ pacer[th[t].stopP].pc = "select"
    /\ pacer' = [pacer EXCEPT ![th[t].stopP].pc = "death", ![th[t].stopP].ret = Nil,
                              ![th[t].stopP].why = "stop"]
    /\ th' = [th EXCEPT ![t].pc = "closewait"]
    /\ UNCHANGED <<gw, wgCount, lock, chans, net, usr, evs, sender, panicked>>

\* Close, line 164: g.waitGroup is read for Wait(); nil is a nil dereference.
Close_Wait(t) ==
    /\ ~panicked
    /\ UNCHANGED deadCall
    /\ th[t].pc = "closewait"
    /\ IF waitGroup = 0
       THEN /\ panicked' = TRUE
            /\ UNCHANGED th
       ELSE /\ th' = [th EXCEPT ![t].pc = "waiting", ![t].wg = waitGroup, ![t].stopP = 0,
                                ![t].late = FALSE]
            /\ UNCHANGED panicked
    /\ UNCHANGED <<pacer, gw, wgCount, lock, chans, net, usr, evs, sender>>

\* Close returns in thread t: to Start (which unlocks and returns the error of
\* start), to Reconnect (which starts its loop), or to the caller.
CloseReturns(r, t) ==
    CASE r.closeRet = "Start" -> [r EXCEPT !.pc = "unlock", !.closeRet = "none", !.wg = 0]
      [] r.closeRet = "Reconnect" -> Retry(IdleThread, t)
      [] OTHER -> [IdleThread EXCEPT !.done = "Close", !.quiet = TasksGone(r.wg)]

\* Close, lines 164-170: Wait() returns at zero, the WaitGroup is cleared and the
\* websocket closed.
Close_Done(t) ==
    /\ ~panicked
    /\ UNCHANGED deadCall
    /\ th[t].pc = "waiting"
    /\ wgCount[th[t].wg] = 0
    /\ waitGroup' = 0
    /\ wsOpen' = FALSE
    /\ th' = [th EXCEPT ![t] = CloseReturns(@, t)]
    /\ UNCHANGED <<pacer, SessionID, Pacemaker, paceDeath, wgCount, lock, chans, outFirst,
                   nextSess, netDown, usr, evs, sender, panicked>>

\* -------------------------------------------------------------- eventLoop
\* eventLoop, lines 319-329, meeting StartAsync's goroutine, line 139: the death
\* value is handed over on g.paceDeath, which is then marked nil.
eventLoop_Death(t) ==
    /\ ~panicked
    /\ UNCHANGED deadCall
    /\ th[t].pc = "eventLoop"
    /\ paceDeath # 0
    /\ pacer[paceDeath].pc = "death"
    /\ pacer' = [pacer EXCEPT ![paceDeath].pc = "nilstop", ![paceDeath].deaths = @ + 1]
    /\ paceDeath' = 0
    /\ th' = [th EXCEPT ![t].pc = "loopdone",
                        ![t].err = Wrap(pacer[paceDeath].ret, "Pacemaker died, reconnecting")]
    /\ UNCHANGED <<SessionID, Pacemaker, waitGroup, wgCount, lock, chans, net, usr, evs,
                   sender, panicked>>

\* eventLoop, lines 331-339: a transport error or an empty frame ends the loop.
eventLoop_Broken(t) ==
    /\ ~panicked
    /\ UNCHANGED deadCall
    /\ th[t].pc = "eventLoop"
    /\ wsOpen
    /\ \E frame \in {"Error", "Empty"} :
        th' = [th EXCEPT ![t].pc = "loopdone",
                         ![t].err = IF frame = "Error" THEN ErrTransport ELSE ErrEmpty]
    /\ UNCHANGED <<pacer, gw, wgCount, lock, chans, net, usr, evs, sender, panicked>>

\* The frames the server sends into a running event loop in this run.
LoopFrames ==
    CASE extra \in {"events", "flood"} -> {"Dispatch"}
      [] extra = "acks" -> {"HeartbeatACK", "InvalidSession"}
      [] OTHER -> {}

\* The dispatch frames the server sends in this run: a few to a consumer, or
\* as many as fill g.Events behind the first event when nobody consumes.
DispatchFrames == IF extra = "flood" THEN WSBuffer - 1 ELSE MaxDispatch

\* eventLoop, lines 341-344: HandleEvent on a frame; its error is only logged.
\* Dispatch is forwarded to Events, HeartbeatACK echoes, InvalidSession clears
\* the session.
eventLoop_Handle(t) ==
    /\ ~panicked
    /\ UNCHANGED deadCall
    /\ th[t].pc = "eventLoop"
    /\ wsOpen
    /\ \E frame \in LoopFrames :
        /\ frame = "Dispatch" => (dispatched < DispatchFrames /\ eventsLen < WSBuffer)
        /\ frame = "HeartbeatACK" => (Pacemaker # 0 /\ pacer[Pacemaker].pc # "exit")
        /\ eventsLen' = IF frame = "Dispatch" THEN eventsLen + 1 ELSE eventsLen
        /\ dispatched' = IF frame = "Dispatch" THEN dispatched + 1 ELSE dispatched
        /\ pacer' = IF frame = "HeartbeatACK"
                    THEN [pacer EXCEPT ![Pacemaker] = Echo(pacer[Pacemaker])]
                    ELSE pacer
        /\ SessionID' = SessionAfter(frame, SessionID)
    /\ UNCHANGED <<th, Pacemaker, paceDeath, waitGroup, wgCount, lock, chans, net, usr,
                   sender, panicked>>

\* handleWS, lines 304-306: g.waitGroup.Done(), then Reconnect on an error.
handleWS_Done(t) ==
    /\ ~panicked
    /\ UNCHANGED deadCall
    /\ th[t].pc = "loopdone"
    /\ IF waitGroup = 0 \/ wgCount[waitGroup] = 0
       THEN /\ panicked' = TRUE
            /\ UNCHANGED <<th, wgCount>>
       ELSE /\ wgCount' = [wgCount EXCEPT ![waitGroup] = @ - 1]
            /\ th' = [th EXCEPT ![t] = IF th[t].err # Nil
                                       THEN [IdleThread EXCEPT !.pc = "reconnect"]
                                       ELSE [IdleThread EXCEPT !.pc = "exit"]]
            /\ UNCHANGED panicked
    /\ UNCHANGED <<pacer, gw, lock, chans, net, usr, evs, sender>>

\* handleWS, line 309: Reconnect's result, wrapped, is sent on fatalError.
handleWS_Publish(t) ==
    /\ ~panicked
    /\ UNCHANGED deadCall
    /\ th[t].pc = "publish"
    /\ Len(fatalError) < 1
    /\ fatalError' = Append(fatalError, Wrap(th[t].res, "Failed to reconnect"))
    /\ published' = Append(published, Wrap(th[t].res, "Failed to reconnect"))
    /\ th' = [th EXCEPT ![t] = [IdleThread EXCEPT !.pc = "exit"]]
    /\ UNCHANGED <<pacer, gw, wgCount, lock, waiter, net, usr, evs, sender, panicked>>

\* ------------------------------------------------------------------- Wait
\* Wait, line 241: receive from FatalError.
Wait_Return ==
    /\ ~panicked
    /\ UNCHANGED deadCall
    /\ waiter = "waiting"
    /\ Len(fatalError) > 0
    /\ waiter' = <<"got", Head(fatalError)>>
    /\ fatalError' = Tail(fatalError)
    /\ UNCHANGED <<th, pacer, gw, wgCount, lock, published, net, usr, evs, sender, panicked>>

\* The consumer of g.Events takes one event.
Events_Recv ==
    /\ ~panicked
    /\ UNCHANGED deadCall
    /\ extra = "events"
    /\ eventsLen > 0
    /\ eventsLen' = eventsLen - 1
    /\ UNCHANGED <<th, pacer, gw, wgCount, lock, chans, net, usr, dispatched, sender,
                   panicked>>

\* ------------------------------------------------------------------- Send
\* Send passing lock = false, as the internal sends do.
SendLocks_Unlocked == FALSE

\* Send, line 350: the lock argument it passes to send.
SendLocks == TRUE

\* send, lines 375-378: g.available.RLock() when lock is set.
Send_RLock(s) ==
    /\ ~panicked
    /\ UNCHANGED deadCall
    /\ extra = "sends"
    /\ sender[s] = "idle"
    /\ SendLocks => availW = NoOne
    /\ availR' = IF SendLocks THEN availR \cup {s} ELSE availR
    /\ sender' = [sender EXCEPT ![s] = "sending"]
    /\ UNCHANGED <<th, pacer, gw, wgCount, availW, chans, net, usr, evs, panicked>>

\* send, line 380 and the deferred RUnlock: the frame is written.
Send_Write(s) ==
    /\ ~panicked
    /\ UNCHANGED deadCall
    /\ sender[s] = "sending"
    /\ outFirst' = IF wsOpen THEN Written("User") ELSE outFirst
    /\ availR' = availR \ {s}
    /\ sender' = [sender EXCEPT ![s] = "idle"]
    /\ UNCHANGED <<th, pacer, gw, wgCount, availW, chans, wsOpen, nextSess, netDown, usr,
                   evs, panicked>>

\* ---------------------------------------------------------- caller's thread
\* The caller's next API call, when its thread is free to make one.
NextCall(call) ==
    /\ th[User].pc = "idle"
    /\ calls < Len(prog)
    /\ prog[calls + 1] = call

User_Open ==
    /\ ~panicked
    /\ UNCHANGED deadCall
    /\ NextCall("Open")
    /\ calls' = calls + 1
    /\ th' = [th EXCEPT ![User] = [IdleThread EXCEPT !.pc = "dial"]]
    /\ UNCHANGED <<pacer, gw, wgCount, lock, chans, net, userOpen, prog, extra, evs, sender,
                   panicked>>

\* Close() is called at most once per successful Open().
User_Close ==
    /\ ~panicked
    /\ UNCHANGED deadCall
    /\ NextCall("Close")
    /\ userOpen
    /\ calls' = calls + 1
    /\ userOpen' = FALSE
    /\ th' = [th EXCEPT ![User] = [IdleThread EXCEPT !.pc = "close", !.closeRet = "user"]]
    /\ UNCHANGED <<pacer, gw, wgCount, lock, chans, net, prog, extra, evs, sender, panicked>>

User_Reconnect ==
    /\ ~panicked
    /\ UNCHANGED deadCall
    /\ NextCall("Reconnect")
    /\ calls' = calls + 1
    /\ th' = [th EXCEPT ![User] = [IdleThread EXCEPT !.pc = "reconnect"]]
    /\ UNCHANGED <<pacer, gw, wgCount, lock, chans, net, userOpen, prog, extra, evs, sender,
                   panicked>>

\* ------------------------------------------------------------ specification
\* Every action is guarded by ~panicked: a panic ends the process.
Next ==
    \/ \E p \in Sessions : Pacer_Start(p)
    \/ \E p \in Sessions : Pacer_Tick(p)
    \/ \E p \in Sessions : Pacer_Exit(p)
    \/ \E t \in Threads : Reconnect_Enter(t)
    \/ \E t \in Threads : Open_Dial(t)
    \/ \E t \in Threads : Start_Lock(t)
    \/ \E t \in Threads : start_Hello(t)
    \/ \E t \in Threads : start_Auth(t)
    \/ \E t \in Threads : start_First(t)
    \/ \E t \in Threads : Start_Unlock(t)
    \/ \E t \in Threads : Close_Stop(t)
    \/ \E t \in Threads : Stop_Send(t)
    \/ \E t \in Threads : Close_Wait(t)
    \/ \E t \in Threads : Close_Done(t)
    \/ \E t \in Sessions : eventLoop_Death(t)
    \/ \E t \in Sessions : eventLoop_Broken(t)
    \/ \E t \in Sessions : eventLoop_Handle(t)
    \/ \E t \in Sessions : handleWS_Done(t)
    \/ \E t \in Sessions : handleWS_Publish(t)
    \/ Wait_Return
    \/ Events_Recv
    \/ \E s \in Senders : Send_RLock(s)
    \/ \E s \in Senders : Send_Write(s)
    \/ User_Open
    \/ User_Close
    \/ User_Reconnect

Spec == Init /\ [][Next]_vars

\* ------------------------------------------------- Pacemaker.Dead on its own
\* A Pacemaker whose SentBeat, EchoBeat and Heartrate hold any machine integers.
InitDead ==
    /\ Fresh
    /\ prog = <<>>
    /\ extra = "none"
    /\ waiter = "none"
    /\ netDown = TRUE
    /\ \E s \in Ints, e \in Ints, r \in Ints :
        deadCall = [NoCall EXCEPT !.sent = s, !.echo = e, !.rate = r]

\* p.Dead() is called.
Dead_Call ==
    /\ ~deadCall.called
    /\ deadCall' = [deadCall EXCEPT !.called = TRUE,
                                    !.dead = Dead(deadCall.echo, deadCall.sent, deadCall.rate)]
    /\ UNCHANGED <<th, pacer, gw, wgCount, lock, chans, net, usr, evs, sender, panicked>>

NextDead == Dead_Call

SpecDead == InitDead /\ [][NextDead]_vars

\* ------------------------------------------------------------------ claims
\* Thread t is inside Close, and inside Start (from Lock to Unlock).
InClose(t) == th[t].pc \in {"close", "stopping", "closewait", "waiting"}
InStart(t) ==
    \/ th[t].pc \in {"hello", "auth", "first", "unlock"}
    \/ InClose(t) /\ th[t].closeRet = "Start"

RunningPacers == {p \in Sessions : pacer[p].pc \in {"start", "select", "death", "nilstop"}}
RunningLoops == {t \in Sessions : th[t].pc = "eventLoop"}

\* C1: a Stop() called once the pacemaker's loop function has returned never
\* blocks: no thread sits in Stop's channel send for a pacemaker whose loop had
\* already returned when Stop was called.
C1_StopAfterReturnNeverBlocks ==
    \A t \in Threads : ~(th[t].pc = "stopping" /\ th[t].late)

\* C2: a Close() called after a successful Open() returns, and the pacemaker and
\* the event loop of the session are gone when it does: the run never comes to
\* a halt with the caller still inside Close.
C2_CloseReturns ==
    /\ (InClose(User) /\ th[User].closeRet = "user") => ENABLED Next
    /\ th[User].done = "Close" => th[User].quiet

\* C3: when the event loop has returned on a transport error or an empty frame,
\* the tear-down Reconnect runs first completes and Open is reached: the run
\* never comes to a halt with handleWS still inside that tear-down.
C3_ReconnectAfterBrokenLoop ==
    \A t \in Sessions : (InClose(t) /\ th[t].closeRet = "Reconnect") => ENABLED Next

\* C4: when the handshake fails, the tear-down Start runs completes, the write
\* lock is released and Open returns the error: the run never comes to a halt
\* (by a panic or by blocking) inside that tear-down, and a failed Open leaves
\* the lock free.
C4_FailedHandshakeReturns ==
    \A t \in Threads :
        /\ th[t].closeRet = "Start" => ENABLED Next
        /\ (th[t].done = "Open" /\ th[t].res # Nil) => availW # t

\* C5: the first frame written after a successful Dial is never a Heartbeat.
C5_NoHeartbeatBeforeAuth == outFirst # "Heartbeat"

\* C6: only the error of a reconnect that exhausted its retries is ever sent on
\* fatalError: never nil, never anything after a reconnect that succeeded.
C6_OnlyTerminalPublished ==
    \A k \in 1..Len(published) : published[k] = Wrap(ErrWSMaxTries, "Failed to reconnect")

C8_MaxTriesPublished ==
    (netDown /\ th[User].done = "Reconnect") =>
        /\ th[User].nDial = WSRetries
        /\ th[User].res = ErrWSMaxTries
        /\ ENABLED Next \/ Len(published) > 0

\* C9: unless g.available is held in write mode, either no pacemaker and no
\* event loop run and the socket is closed, or exactly one of each runs and the
\* socket is open.
C9_TasksAndSocket ==
    \/ availW # NoOne
    \/ RunningPacers = {} /\ RunningLoops = {} /\ ~wsOpen
    \/ Cardinality(RunningPacers) = 1 /\ Cardinality(RunningLoops) = 1 /\ wsOpen

C11_ExactlyOneDeath ==
    \A p \in Sessions :
        /\ pacer[p].deaths <= 1
        /\ pacer[p].pc \in {"nilstop", "exit"} => pacer[p].deaths = 1
        /\ pacer[p].pc = "death" => ENABLED Next

\* C12 as stated: for all values of sent, echo and rate, Dead() is true exactly
\* when sent > 0, echo > 0 and sent - echo > 2 * rate.
C12_DeadForAll ==
    deadCall.called =>
        (deadCall.dead <=> /\ deadCall.sent > 0
                           /\ deadCall.echo > 0
                           /\ deadCall.sent - deadCall.echo > 2 * deadCall.rate)

\* C12 as amended: Dead() is false whenever sent or echo is zero; for sent and
\* echo not negative and a rate whose double is a machine integer, Dead() is
\* true exactly when sent > 0, echo > 0 and sent - echo > 2 * rate.
C12_DeadInRange ==
    deadCall.called =>
        /\ (deadCall.sent = 0 \/ deadCall.echo = 0) => ~deadCall.dead
        /\ (deadCall.sent >= 0 /\ deadCall.echo >= 0 /\ 2 * deadCall.rate \in Ints) =>
              (deadCall.dead <=> /\ deadCall.sent > 0
                                 /\ deadCall.echo > 0
                                 /\ deadCall.sent - deadCall.echo > 2 * deadCall.rate)

\* C12 happens: Dead() returned true on timestamps that are set and a positive
\* rate whose double is a machine integer.
C12_Witness ==
    /\ deadCall.called /\ deadCall.dead
    /\ deadCall.sent > 0 /\ deadCall.echo > 0
    /\ deadCall.rate > 0 /\ 2 * deadCall.rate \in Ints

\* The threads waiting for, or handling, an inbound frame of the transport: a
\* handshake at its Hello or at its first event, and a running event loop.
Consumers == {t \in Threads : th[t].pc \in {"hello", "first", "eventLoop"}}

\* C13: events are delivered in the order their frames were received, because
\* no two tasks ever consume inbound frames of the transport at the same time.
C13_OneConsumer == Cardinality(Consumers) <= 1

\* C14: in every handshake, of an Open or of a reconnect, the authentication
\* frame sent is Identify exactly when SessionID was empty at that point, and
\* Resume otherwise.
C14_IdentifyOrResume ==
    \A t \in Threads :
        th[t].auth # "none" =>
            /\ th[t].auth \in {"Identify", "Resume"}
            /\ th[t].auth = "Identify" <=> th[t].authSid = ""

\* C14 happens: handleWS, reconnecting after the pacemaker died while a session
\* id was held, has sent Resume.
C14_Witness ==
    \E t \in Sessions : th[t].inRec /\ th[t].auth = "Resume" /\ th[t].authSid # ""

\* C15: the value a pacemaker offers on its death channel is nil exactly when
\* its loop ended on a stop signal, the error of Pace when Pace failed, and
\* ErrDead when the liveness check failed; a failed Pace ends the loop before
\* SentBeat is set.
C15_DeathValue ==
    \A p \in Sessions :
        pacer[p].pc \in {"death", "nilstop"} =>
            /\ pacer[p].why \in {"stop", "pace", "dead"}
            /\ pacer[p].ret = Nil <=> pacer[p].why = "stop"
            /\ pacer[p].why = "pace" =>
                    pacer[p].ret = ErrSend /\ pacer[p].SentBeat < pacer[p].now
            /\ pacer[p].why = "dead" =>
                    pacer[p].ret = ErrDead /\ pacer[p].SentBeat = pacer[p].now

\* C15 happens: a Pace failed after an earlier one had succeeded, and the value
\* has been taken from the death channel.
C15_Witness ==
    \E p \in Sessions :
        pacer[p].pc = "nilstop" /\ pacer[p].why = "pace" /\ pacer[p].SentBeat > 0

StopCalled(p) == \E t \in Threads : th[t].pc = "stopping" /\ th[t].stopP = p

\* C17: a pacemaker that gets no Echo after its start, whose Pace never fails
\* and on which Stop() is not called returns ErrDead after a bounded number of
\* heartbeats, and ErrDead is then taken from the death channel by the event
\* loop: the run never comes to a halt with such a pacemaker still looping or
\* still offering ErrDead.
C17_DeadIsDelivered ==
    \A p \in Sessions :
        /\ (pacer[p].pc = "select" /\ pacer[p].unacked = pacer[p].beats) =>
                pacer[p].beats <= 3
        /\ (pacer[p].pc \in {"start", "select"} /\ pacer[p].unacked = pacer[p].beats
                /\ ~StopCalled(p)) => ENABLED Next
        /\ (pacer[p].pc = "death" /\ pacer[p].why = "dead" /\ ~StopCalled(p)) => ENABLED Next

\* C18: the handshake never blocks on g.Events: whenever start is about to
\* forward its first event, on an Open or on a reconnect, there is room for it
\* in the buffer.
C18_FirstEventNeverBlocks ==
    \A t \in Threads : th[t].pc = "first" => eventsLen < WSBuffer

\* C19: Close() only runs where g.Pacemaker and g.waitGroup are both set: it
\* never calls Stop() on a nil pacemaker nor Wait() on a nil wait-group.
C19_CloseNeverSeesNil ==
    \A t \in Threads :
        /\ th[t].pc = "close" => (Pacemaker # 0 /\ waitGroup # 0)
        /\ th[t].pc = "closewait" => waitGroup # 0

\* C20: at most one value is ever sent on fatalError, so the send in handleWS
\* never blocks: no handleWS goroutine is about to publish while the one slot
\* of the channel is taken.
C20_OnePublish ==
    /\ Len(published) <= 1
    /\ \A t \in Sessions : th[t].pc = "publish" => Len(fatalError) < 1

====
